---- MODULE Spec2Model ----
(***************************************************************************)
(* A model of the event stream of nomad/stream: the eventBuffer (a single- *)
(* writer, many-reader linked list with capacity and age eviction), the    *)
(* EventPublisher that serialises Append and prune on it, and the          *)
(* Subscription read loop with its filter.                                 *)
(*                                                                         *)
(* Buffer items are numbered in the order newBufferItem allocates them:    *)
(* item 1 is the sentinel of newEventBuffer, item k+1 the k-th appended    *)
(* one.  A pointer to an item is its number, the nil pointer is NoItem.    *)
(* Every atomic store, atomic add and channel close of the writer and of   *)
(* the pruner is one step, so that lock-free readers see each              *)
(* intermediate state.                                                     *)
(***************************************************************************)
EXTENDS Integers, Sequences, FiniteSets, TLC

\* ------------------------------------------------------------------ bounds
MaxAppends == 2     \* non-empty Publish calls in one behaviour
MaxKeys == 2        \* keys listed under one topic of a filter input
MaxEvents == 2      \* events in the slice of a filter input

\* --------------------------------------------------------------- constants
NoItem == 0                 \* the nil *bufferItem
AllKeys == "*"
subscriptionStateOpen == 0
subscriptionStateClosed == 1
defaultTTL == 1             \* 1 * time.Hour; the clock counts hours
pruneTick == 0              \* EventPublisher.pruneTick: never assigned
maxItemTTL == 0             \* eventBuffer.maxItemTTL: never assigned

EventBufferSizes == 0 .. 2          \* cfg.EventBufferSize explored
EventBufferTTLs == {0}              \* cfg.EventBufferTTL explored (hours)

\* The clock readings, in hours since the buffer was made.  prune compares
\* an age with maxItemTTL = 0, so what matters is whether time has passed
\* since an item was made.
Clock == {0, 1}

\* ------------------------------------------------------------------ events
\* An Event is its Topic and Key; Index and Payload are carried untouched.
Ev(t, k) == [Topic |-> t, Key |-> k]


\* ------------------------------------------------------------------ filter
\* The inner loop of filter: one hit for every listed key k with
\* e.Key == k || k == AllKeys.
RECURSIVE keyHits(_, _)
keyHits(e, keys) ==
    IF keys = << >> THEN 0
    ELSE (IF e.Key = Head(keys) \/ Head(keys) = AllKeys THEN 1 ELSE 0)
         + keyHits(e, Tail(keys))

\* The body of "for _, e := range events": the hits of one event, none when
\* its topic is not a key of req.topics.
topicHits(req, e) ==
    IF e.Topic \in DOMAIN req THEN keyHits(e, req[e.Topic]) ELSE 0

\* The first pass: count.
RECURSIVE countHits(_, _)
countHits(req, es) ==
    IF es = << >> THEN 0
    ELSE topicHits(req, Head(es)) + countHits(req, Tail(es))

\* n times result = append(result, e).
RECURSIVE appendTimes(_, _)
appendTimes(e, n) == IF n = 0 THEN << >> ELSE << e >> \o appendTimes(e, n - 1)

\* The second pass: result.
RECURSIVE appendHits(_, _)
appendHits(req, es) ==
    IF es = << >> THEN << >>
    ELSE appendTimes(Head(es), topicHits(req, Head(es)))
         \o appendHits(req, Tail(es))

\* filter(req, events); the nil slice and the empty slice are both << >>.
filter(req, es) ==
    IF Len(es) = 0 THEN es
    ELSE LET count == countHits(req, es)
         IN  IF count = 0 THEN << >>
             ELSE IF count = Len(es) THEN es
             ELSE appendHits(req, es)

\* ----------------------------------------------------------- filter inputs
Topics == {"jobs", "nodes"}
Keys == {"A", "B"}

\* The slices of at most n elements of S.
SeqsUpTo(S, n) == UNION { [1 .. k -> S] : k \in 0 .. n }

\* SubscribeRequest.topics: some topics, each with its list of keys.
FilterRequests ==
    UNION { [T -> SeqsUpTo({"A", AllKeys}, MaxKeys)] : T \in SUBSET Topics }

FilterEvents == SeqsUpTo({ Ev(t, k) : t \in Topics, k \in Keys }, MaxEvents)

\* ------------------------------------------------------------------- state
Tasks == {"writer", "pruner"}
Subs == {"s1"}

\* What Publish is called with in the concurrent model.
Batches ==
    { << Ev("jobs", "A"), Ev("jobs", "B") >>,
      << Ev("nodes", "N") >> }

\* The interest sets subscriptions are created with in the concurrent model.
Requests == { [jobs |-> << "A" >>] }

NoUpdate == [index |-> 0, events |-> << >>]

VARIABLES
    cfg,          \* EventPublisherCfg given to NewEventPublisher
    ttl,          \* the TTL NewEventPublisher passes to newEventBuffer
    now,          \* the clock
    ctxDone,      \* the publisher's ctx is cancelled
    items,        \* the bufferItems allocated so far: Index, Events, createdAt
    next,         \* link.next of each item
    ch,           \* link.ch of each item is closed
    droppedCh,    \* link.droppedCh of each item is closed
    head, tail, size, maxSize,   \* eventBuffer
    lock,         \* EventPublisher.lock: "" or the task holding it
    pc,           \* where the writer and the pruner task stand
    update,       \* handleUpdates: the changeEvents received
    oldTail,      \* appendItem: oldTail
    addedSize,    \* appendItem: size, the result of atomic.AddInt64
    old, nxt,     \* advanceHead: old and next, of each task
    pubPc, pubMsg,  \* the committer calling Publish
    subPc,        \* where each subscriber stands
    req,          \* Subscription.req.topics
    state,        \* Subscription.state
    forceClosed,  \* Subscription.forceClosed is closed
    currentItem,  \* Subscription.currentItem: the item whose link it holds
    subTail,      \* Subscribe: the result of buffer.Tail()
    ctxCancelled, \* the ctx of the Next call is cancelled
    err,          \* Subscription.Next: err of currentItem.Next
    result,       \* what the latest Next call returned: "events" or its error
    retEvents,    \* the events the latest Next call returned
    lastRet,      \* the item whose events Next returned last
    subStart,     \* the currentItem the subscription was created with
    calledBehind, \* the latest Next call was made with currentItem behind the head
    resumed,      \* the Next call before the latest one returned ctx.Err()
    calledOffTail,  \* the Next call in progress was made before any time passed,
                    \* in a buffer of maxSize 1, with currentItem not the tail
    fPc,          \* where the caller of filter stands, "none" without one
    fReq, fEvents,  \* the arguments of filter
    fResult,      \* filter(fReq, fEvents)
    fAgain        \* filter(fReq, fResult)

bufVars == << items, next, ch, droppedCh, head, tail, size, maxSize >>
taskVars == << lock, pc, update, oldTail, addedSize, old, nxt >>
pubVars == << pubPc, pubMsg >>
filterVars == << fPc, fReq, fEvents, fResult, fAgain >>
envVars == << cfg, ttl, now, ctxDone, filterVars >>

subVars == << subPc, req, state, forceClosed, currentItem, subTail, ctxCancelled,
             err, result, retEvents, lastRet, subStart, calledBehind, resumed,
             calledOffTail >>

vars == << envVars, bufVars, taskVars, pubVars, subVars >>

\* --------------------------------------------------------------- accessors
eventBufferHead == head
eventBufferTail == tail
eventBufferLen == size

\* newBufferItem(index, events)
newBufferItem(index, events) ==
    [Index |-> index, Events |-> events, createdAt |-> now]

\* ------------------------------------------------------------ construction
\* newEventBuffer(size, maxItemTTL): maxSize, size 0 and the sentinel as head
\* and tail; the maxItemTTL argument is not stored.
newEventBuffer(bufSize, itemTTL) ==
    /\ items = << [Index |-> 0, Events |-> << >>, createdAt |-> 0] >>
    /\ next = << NoItem >>
    /\ ch = << FALSE >>
    /\ droppedCh = << FALSE >>
    /\ head = 1
    /\ tail = 1
    /\ size = 0
    /\ maxSize = bufSize

\* NewEventPublisher: the TTL default, the buffer, the channel and the two
\* tasks.
NewEventPublisher(c) ==
    /\ cfg = c
    /\ ttl = IF c.EventBufferTTL = 0 THEN defaultTTL ELSE c.EventBufferTTL
    /\ newEventBuffer(c.EventBufferSize, ttl)
    /\ now = 0
    /\ ctxDone = FALSE
    /\ lock = ""
    /\ pc = [t \in Tasks |-> "select"]
    /\ update = NoUpdate
    /\ oldTail = NoItem
    /\ addedSize = 0
    /\ old = [t \in Tasks |-> NoItem]
    /\ nxt = [t \in Tasks |-> NoItem]
    /\ pubPc = "idle"
    /\ pubMsg = NoUpdate

\* No subscription exists yet.
NoSubscription ==
    /\ subPc = [s \in Subs |-> "none"]
    /\ req = [s \in Subs |-> << >>]
    /\ state = [s \in Subs |-> subscriptionStateOpen]
    /\ forceClosed = [s \in Subs |-> FALSE]
    /\ currentItem = [s \in Subs |-> NoItem]
    /\ subTail = [s \in Subs |-> NoItem]
    /\ ctxCancelled = [s \in Subs |-> FALSE]
    /\ err = [s \in Subs |-> ""]
    /\ result = [s \in Subs |-> ""]
    /\ retEvents = [s \in Subs |-> << >>]
    /\ lastRet = [s \in Subs |-> NoItem]
    /\ subStart = [s \in Subs |-> NoItem]
    /\ calledBehind = [s \in Subs |-> FALSE]
    /\ resumed = [s \in Subs |-> FALSE]
    /\ calledOffTail = [s \in Subs |-> FALSE]

\* Nobody calls filter on its own.
NoFilterCall ==
    /\ fPc = "none"
    /\ fReq = << >>
    /\ fEvents = << >>
    /\ fResult = << >>
    /\ fAgain = << >>

Init ==
    \E c \in [EventBufferSize : EventBufferSizes, EventBufferTTL : EventBufferTTLs] :
        NewEventPublisher(c) /\ NoSubscription /\ NoFilterCall

\* ----------------------------------------------------------------- Publish
\* Appends handed to the writer so far, one of them perhaps not yet an item.
Accepted == Len(items) - 1 + (IF pc["writer"] = "lock" THEN 1 ELSE 0)

\* The commit index of the latest Publish.
lastIndex ==
    IF pc["writer"] = "lock" THEN update.index ELSE items[Len(items)].Index

\* Publish that sends whatever it is given.
publishSendsAll(events) == TRUE

\* if len(events) > 0
publishSends(events) == Len(events) > 0

\* A committer calls Publish(index, events) with the next commit index: with
\* events it stands at e.publishCh <- , without any it is about to return.
PublishCall ==
    /\ pubPc = "idle"
    /\ \E index \in {lastIndex + 1}, events \in Batches \cup {<< >>} :
          /\ IF publishSends(events)
             THEN /\ Accepted < MaxAppends
                  /\ pubMsg' = [index |-> index, events |-> events]
                  /\ pubPc' = "send"
             ELSE /\ pubPc' = "return"
                  /\ UNCHANGED pubMsg
    /\ UNCHANGED << envVars, bufVars, taskVars, subVars >>

\* Publish returns without having sent.
PublishReturn ==
    /\ pubPc = "return"
    /\ pubPc' = "idle"
    /\ UNCHANGED << envVars, bufVars, taskVars, subVars, pubMsg >>

Publish == PublishCall \/ PublishReturn

\* ----------------------------------------------------------- handleUpdates
\* The writer without its for loop: it returns after one update.
handleUpdatesOnce == "done"

\* for { select { ... } }: after sendEvents the writer is at its select again.
handleUpdatesLoop == "select"

\* case <-ctx.Done(): return
HandleUpdatesDone ==
    /\ pc["writer"] = "select"
    /\ ctxDone
    /\ pc' = [pc EXCEPT !["writer"] = "done"]
    /\ UNCHANGED << envVars, bufVars, pubVars, subVars, lock, update, oldTail, addedSize, old, nxt >>

\* case update := <-e.publishCh: the rendezvous with e.publishCh <- in
\* Publish, which returns.
HandleUpdatesRecv ==
    /\ pc["writer"] = "select"
    /\ pubPc = "send"
    /\ update' = pubMsg
    /\ pubPc' = "idle"
    /\ pubMsg' = NoUpdate
    /\ pc' = [pc EXCEPT !["writer"] = "lock"]
    /\ UNCHANGED << envVars, bufVars, subVars, lock, oldTail, addedSize, old, nxt >>

\* A Lock that does not wait for the mutex to be free.
mutexLockUnguarded(t) == TRUE

\* e.lock.Lock() of task t can go on: the mutex is free.
mutexLock(t) == lock = ""

\* sendEvents: e.lock.Lock(); Append: newBufferItem; appendItem:
\* oldTail := b.Tail(); oldTail.link.next.Store(item)
AppendItemStoreNext ==
    /\ pc["writer"] = "lock"
    /\ mutexLock("writer")
    /\ lock' = "writer"
    /\ oldTail' = eventBufferTail
    /\ items' = Append(items, newBufferItem(update.index, update.events))
    /\ next' = Append([next EXCEPT ![eventBufferTail] = Len(items) + 1], NoItem)
    /\ ch' = Append(ch, FALSE)
    /\ droppedCh' = Append(droppedCh, FALSE)
    /\ update' = NoUpdate
    /\ pc' = [pc EXCEPT !["writer"] = "storeTail"]
    /\ UNCHANGED << envVars, pubVars, subVars, head, tail, size, maxSize, addedSize, old, nxt >>

\* b.tail.Store(item)
AppendItemStoreTail ==
    /\ pc["writer"] = "storeTail"
    /\ tail' = next[oldTail]
    /\ pc' = [pc EXCEPT !["writer"] = "addSize"]
    /\ UNCHANGED << envVars, pubVars, subVars, items, next, ch, droppedCh, head, size, maxSize,
                    lock, update, oldTail, addedSize, old, nxt >>

\* The test that evicts as soon as the buffer is full: at maxSize already.
overMaxSizeOrEqual(sz) == sz >= maxSize

\* The test with an off-by-one capacity: evict only above maxSize + 1.
overMaxSizeLate(sz) == sz > maxSize + 1

\* if size > b.maxSize
overMaxSize(sz) == sz > maxSize

\* size := atomic.AddInt64(b.size, 1); if size > b.maxSize { b.advanceHead() }
AppendItemAddSize ==
    /\ pc["writer"] = "addSize"
    /\ size' = size + 1
    /\ addedSize' = size + 1
    /\ pc' = [pc EXCEPT !["writer"] =
                 IF overMaxSize(size + 1) THEN "advClose" ELSE "notify"]
    /\ UNCHANGED << envVars, pubVars, subVars, items, next, ch, droppedCh, head, tail, maxSize,
                    lock, update, oldTail, old, nxt >>

\* ------------------------------------------------------------- advanceHead
\* The test of prune without its check of Len().
pruneAgainAnyLen(len, h) == now - items[h].createdAt > maxItemTTL

\* The test of the loop of prune: go on while Len() != 0 and the head is
\* older than maxItemTTL.
pruneAgain(len, h) ==
    /\ len # 0
    /\ now - items[h].createdAt > maxItemTTL

\* old := b.Head(); next := old.link.next.Load(); close(old.link.droppedCh).
\* Closing a closed channel panics.
AdvanceHeadClose(t) ==
    /\ pc[t] = "advClose"
    /\ old' = [old EXCEPT ![t] = eventBufferHead]
    /\ nxt' = [nxt EXCEPT ![t] = next[eventBufferHead]]
    /\ IF droppedCh[eventBufferHead]
       THEN /\ pc' = [pc EXCEPT ![t] = "panic"]
            /\ UNCHANGED droppedCh
       ELSE /\ pc' = [pc EXCEPT ![t] = "advStore"]
            /\ droppedCh' = [droppedCh EXCEPT ![eventBufferHead] = TRUE]
    /\ UNCHANGED << envVars, pubVars, subVars, items, next, ch, head, tail, size, maxSize,
                    lock, update, oldTail, addedSize >>

\* b.head.Store(next); atomic.Value panics on a store of nil.
AdvanceHeadStore(t) ==
    /\ pc[t] = "advStore"
    /\ IF nxt[t] = NoItem
       THEN /\ pc' = [pc EXCEPT ![t] = "panic"]
            /\ UNCHANGED head
       ELSE /\ pc' = [pc EXCEPT ![t] = "advDec"]
            /\ head' = nxt[t]
    /\ old' = [old EXCEPT ![t] = NoItem]
    /\ nxt' = [nxt EXCEPT ![t] = NoItem]
    /\ UNCHANGED << envVars, pubVars, subVars, items, next, ch, droppedCh, tail, size, maxSize,
                    lock, update, oldTail, addedSize >>

\* An advanceHead that forgets the item it dropped.
decSizeNot(sz) == sz

\* atomic.AddInt64(b.size, -1)
decSize(sz) == sz - 1

\* atomic.AddInt64(b.size, -1) and the return: to appendItem, or to the loop
\* of prune, which goes round again or returns to periodicPrune, which
\* unlocks.
AdvanceHeadDec(t) ==
    /\ pc[t] = "advDec"
    /\ size' = decSize(size)
    /\ IF t = "writer"
       THEN /\ pc' = [pc EXCEPT ![t] = "notify"]
            /\ UNCHANGED lock
       ELSE IF pruneAgain(decSize(size), eventBufferHead)
       THEN /\ pc' = [pc EXCEPT ![t] = "advClose"]
            /\ UNCHANGED lock
       ELSE /\ pc' = [pc EXCEPT ![t] = "select"]
            /\ lock' = ""
    /\ UNCHANGED << envVars, pubVars, subVars, items, next, ch, droppedCh, head, tail, maxSize,
                    update, oldTail, addedSize, old, nxt >>

advanceHead(t) ==
    \/ AdvanceHeadClose(t)
    \/ AdvanceHeadStore(t)
    \/ AdvanceHeadDec(t)

\* The notification given on the link of the new item.
notifyLinkOfItem(ot) == next[ot]

\* The link whose ch appendItem closes: oldTail.link.
notifyLink(ot) == ot

\* close(oldTail.link.ch), and the deferred e.lock.Unlock() of sendEvents.
AppendItemNotify ==
    /\ pc["writer"] = "notify"
    /\ IF ch[notifyLink(oldTail)]
       THEN /\ pc' = [pc EXCEPT !["writer"] = "panic"]
            /\ UNCHANGED << ch, lock, oldTail, addedSize >>
       ELSE /\ pc' = [pc EXCEPT !["writer"] = handleUpdatesLoop]
            /\ ch' = [ch EXCEPT ![notifyLink(oldTail)] = TRUE]
            /\ lock' = ""
            /\ oldTail' = NoItem
            /\ addedSize' = 0
    /\ UNCHANGED << envVars, pubVars, subVars, items, next, droppedCh, head, tail, size, maxSize,
                    update, old, nxt >>

appendItem ==
    \/ AppendItemStoreNext
    \/ AppendItemStoreTail
    \/ AppendItemAddSize
    \/ advanceHead("writer")
    \/ AppendItemNotify

handleUpdates == HandleUpdatesDone \/ HandleUpdatesRecv \/ appendItem

\* ----------------------------------------------------------- periodicPrune
\* case <-ctx.Done(): return
PeriodicPruneDone ==
    /\ pc["pruner"] = "select"
    /\ ctxDone
    /\ pc' = [pc EXCEPT !["pruner"] = "done"]
    /\ UNCHANGED << envVars, bufVars, pubVars, subVars, lock, update, oldTail, addedSize, old, nxt >>

\* case <-time.After(e.pruneTick): the timer of pruneTick has fired (at once
\* when pruneTick is 0); e.lock.Lock(); prune, up to its first advanceHead;
\* e.lock.Unlock() when it returns without one.
PeriodicPruneTick ==
    /\ pc["pruner"] = "select"
    /\ pruneTick <= 0
    /\ mutexLock("pruner")
    /\ IF pruneAgain(eventBufferLen, eventBufferHead)
       THEN /\ lock' = "pruner"
            /\ pc' = [pc EXCEPT !["pruner"] = "advClose"]
       ELSE UNCHANGED << lock, pc >>
    /\ UNCHANGED << envVars, bufVars, pubVars, subVars, update, oldTail, addedSize, old, nxt >>

prune == PeriodicPruneTick \/ advanceHead("pruner")

periodicPrune == PeriodicPruneDone \/ prune

\* ------------------------------------------------------------- environment
\* Time passes.
Tick ==
    /\ now + 1 \in Clock
    /\ now' = now + 1
    /\ UNCHANGED << cfg, ttl, ctxDone, filterVars, bufVars, taskVars, pubVars, subVars >>

\* The ctx given to NewEventPublisher is cancelled.
CancelPublisher ==
    /\ ~ctxDone
    /\ ctxDone' = TRUE
    /\ UNCHANGED << cfg, ttl, now, filterVars, bufVars, taskVars, pubVars, subVars >>

\* ------------------------------------------------------------- bufferItem
\* NextNoBlock of item i: its link's next, nil when there is none yet.
NextNoBlock(i) == next[i]

\* A NextLink that starts the reader at the head of the buffer.
NextLinkFromHead(i) == eventBufferHead

\* NextLink of item i: the next item when there is one, otherwise an empty
\* item that shares the link of i, which is item i as far as its link goes.
NextLink(i) == IF NextNoBlock(i) = NoItem THEN i ELSE NextNoBlock(i)

\* A first select that lacks the case <-i.link.ch.
NextReadyNoCh(s, i) ==
    (IF ctxCancelled[s] THEN {"ctx"} ELSE {})
    \cup (IF forceClosed[s] THEN {"forceClose"} ELSE {})

\* The cases of the first select of bufferItem.Next that are ready for the
\* cursor i of subscriber s; Go takes any one of the ready cases.
NextReady(s, i) ==
    (IF ctxCancelled[s] THEN {"ctx"} ELSE {})
    \cup (IF forceClosed[s] THEN {"forceClose"} ELSE {})
    \cup (IF ch[i] THEN {"ch"} ELSE {})

\* The load that runs ahead to the newest item it can reach in two hops.
loadNextAhead(i) ==
    IF next[i] # NoItem /\ next[next[i]] # NoItem THEN next[next[i]] ELSE next[i]

\* The load that hands back the item itself instead of its successor.
loadNextSame(i) == IF next[i] = NoItem THEN NoItem ELSE i

\* nextRaw := i.link.next.Load(); next := nextRaw.(*bufferItem)
loadNext(i) == next[i]

\* bufferItem.Next without its second select, the check of droppedCh.
NextAfterChUnchecked(i) ==
    IF loadNext(i) = NoItem THEN "invalid next item" ELSE ""

\* bufferItem.Next after the first select took <-i.link.ch: the error of the
\* second select and of the load of next, "" when next is returned.
NextAfterCh(i) ==
    IF droppedCh[i] THEN "event dropped from buffer"
    ELSE IF loadNext(i) = NoItem THEN "invalid next item"
    ELSE ""

\* ------------------------------------------------------------ Subscription
\* Subscribe(request), first half: buffer.Tail().
SubscribeTail(s) ==
    /\ subPc[s] = "none"
    /\ \E r \in Requests : req' = [req EXCEPT ![s] = r]
    /\ subTail' = [subTail EXCEPT ![s] = eventBufferTail]
    /\ subPc' = [subPc EXCEPT ![s] = "link"]
    /\ UNCHANGED << envVars, bufVars, taskVars, pubVars, state, forceClosed, currentItem,
                    ctxCancelled, err, result, retEvents, lastRet, subStart, calledBehind, resumed,
                    calledOffTail >>

\* Subscribe(request), second half: the subscription, open, with
\* currentItem = tail.NextLink().
SubscribeLink(s) ==
    /\ subPc[s] = "link"
    /\ currentItem' = [currentItem EXCEPT ![s] = NextLink(subTail[s])]
    /\ subStart' = [subStart EXCEPT ![s] = NextLink(subTail[s])]
    /\ subTail' = [subTail EXCEPT ![s] = NoItem]
    /\ subPc' = [subPc EXCEPT ![s] = "idle"]
    /\ UNCHANGED << envVars, bufVars, taskVars, pubVars, req, state, forceClosed,
                    ctxCancelled, err, result, retEvents, lastRet, calledBehind, resumed,
                    calledOffTail >>

Subscribe(s) == SubscribeTail(s) \/ SubscribeLink(s)

\* forceClose: the state becomes closed and s.forceClosed is closed, once;
\* nothing happens when the state is closed already.
forceClose(s) ==
    /\ subPc[s] \notin {"none", "link"}
    /\ state[s] = subscriptionStateOpen
    /\ state' = [state EXCEPT ![s] = subscriptionStateClosed]
    /\ forceClosed' = [forceClosed EXCEPT ![s] = TRUE]
    /\ UNCHANGED << envVars, bufVars, taskVars, pubVars, subPc, req, currentItem,
                    subTail, ctxCancelled, err, result, retEvents, lastRet, subStart, calledBehind, resumed,
                    calledOffTail >>

\* The caller of Next cancels the ctx it gave; only the select of
\* bufferItem.Next looks at it.
CancelNext(s) ==
    /\ subPc[s] = "select"
    /\ ~ctxCancelled[s]
    /\ ctxCancelled' = [ctxCancelled EXCEPT ![s] = TRUE]
    /\ UNCHANGED << envVars, bufVars, taskVars, pubVars, subPc, req, state, forceClosed,
                    currentItem, subTail, err, result, retEvents, lastRet, subStart, calledBehind, resumed,
                    calledOffTail >>

\* Next(ctx) is called, with a ctx of its own.
NextCall(s) ==
    /\ subPc[s] = "idle"
    /\ subPc' = [subPc EXCEPT ![s] = "check"]
    /\ ctxCancelled' = [ctxCancelled EXCEPT ![s] = FALSE]
    /\ calledBehind' = [calledBehind EXCEPT ![s] = currentItem[s] < eventBufferHead]
    /\ resumed' = [resumed EXCEPT ![s] = result[s] = "context canceled"]
    /\ calledOffTail' = [calledOffTail EXCEPT ![s] =
                            maxSize = 1 /\ now = 0 /\ currentItem[s] # eventBufferTail]
    /\ result' = [result EXCEPT ![s] = ""]
    /\ retEvents' = [retEvents EXCEPT ![s] = << >>]
    /\ UNCHANGED << envVars, bufVars, taskVars, pubVars, req, state, forceClosed,
                    currentItem, subTail, err, lastRet, subStart >>

\* Next without its check of the state.
NextClosedUnchecked(s) == FALSE

\* Whether Next returns at once because the state is closed.
NextClosed(s) == state[s] = subscriptionStateClosed

\* if atomic.LoadUint32(&s.state) == subscriptionStateClosed
NextCheck(s) ==
    /\ subPc[s] = "check"
    /\ IF NextClosed(s)
       THEN /\ result' = [result EXCEPT ![s] = "ErrSubscriptionClosed"]
            /\ subPc' = [subPc EXCEPT ![s] = "idle"]
            /\ ctxCancelled' = [ctxCancelled EXCEPT ![s] = FALSE]
       ELSE /\ subPc' = [subPc EXCEPT ![s] = "select"]
            /\ UNCHANGED << result, ctxCancelled >>
    /\ UNCHANGED << envVars, bufVars, taskVars, pubVars, req, state, forceClosed,
                    currentItem, subTail, err, retEvents, lastRet, subStart, calledBehind, resumed >>
    /\ calledOffTail' = [calledOffTail EXCEPT ![s] = @ /\ subPc'[s] # "idle"]

\* next, err := s.currentItem.Next(ctx, s.forceClosed), and without an error
\* s.currentItem = next; events := filter(s.req, next.Events); return them or
\* go round again.
NextItem(s) ==
    /\ subPc[s] = "select"
    /\ \E c \in NextReady(s, currentItem[s]) :
          LET e == CASE c = "ctx" -> "context canceled"
                     [] c = "forceClose" -> "subscription closed"
                     [] OTHER -> NextAfterCh(currentItem[s])
              n == loadNext(currentItem[s])
          IN  IF e # ""
              THEN /\ err' = [err EXCEPT ![s] = e]
                   /\ subPc' = [subPc EXCEPT ![s] = "err"]
                   /\ UNCHANGED << currentItem, result, retEvents, lastRet,
                                   ctxCancelled >>
              ELSE /\ currentItem' = [currentItem EXCEPT ![s] = n]
                   /\ UNCHANGED err
                   /\ IF Len(filter(req[s], items[n].Events)) = 0
                      THEN UNCHANGED << subPc, result, retEvents, lastRet,
                                        ctxCancelled >>
                      ELSE /\ subPc' = [subPc EXCEPT ![s] = "idle"]
                           /\ ctxCancelled' = [ctxCancelled EXCEPT ![s] = FALSE]
                           /\ result' = [result EXCEPT ![s] = "events"]
                           /\ retEvents' = [retEvents EXCEPT ![s] =
                                               filter(req[s], items[n].Events)]
                           /\ lastRet' = [lastRet EXCEPT ![s] = n]
    /\ UNCHANGED << envVars, bufVars, taskVars, pubVars, req, state, forceClosed,
                    subTail, subStart, calledBehind, resumed >>
    /\ calledOffTail' = [calledOffTail EXCEPT ![s] = @ /\ subPc'[s] # "idle"]

\* case err != nil && state == subscriptionStateClosed: ErrSubscriptionClosed;
\* case err != nil: err
NextErr(s) ==
    /\ subPc[s] = "err"
    /\ result' = [result EXCEPT ![s] =
                     IF state[s] = subscriptionStateClosed
                     THEN "ErrSubscriptionClosed" ELSE err[s]]
    /\ err' = [err EXCEPT ![s] = ""]
    /\ subPc' = [subPc EXCEPT ![s] = "idle"]
    /\ ctxCancelled' = [ctxCancelled EXCEPT ![s] = FALSE]
    /\ UNCHANGED << envVars, bufVars, taskVars, pubVars, req, state, forceClosed,
                    currentItem, subTail, retEvents, lastRet, subStart, calledBehind, resumed >>
    /\ calledOffTail' = [calledOffTail EXCEPT ![s] = @ /\ subPc'[s] # "idle"]

SubscriptionNext(s) == NextCall(s) \/ NextCheck(s) \/ NextItem(s) \/ NextErr(s)

Subscriber(s) ==
    \/ Subscribe(s)
    \/ SubscriptionNext(s)
    \/ CancelNext(s)
    \/ forceClose(s)

Next ==
    \/ Publish
    \/ handleUpdates
    \/ periodicPrune
    \/ Tick
    \/ CancelPublisher
    \/ \E s \in Subs : Subscriber(s)

Spec == Init /\ [][Next]_vars

\* The scheduling of the tasks: a task that can take a step takes one, and a
\* task waiting for e.lock gets it when it is free again and again
\* (sync.Mutex hands the lock to a starving waiter).
FairSpec ==
    /\ Spec
    /\ WF_vars(handleUpdates)
    /\ SF_vars(AppendItemStoreNext)
    /\ WF_vars(periodicPrune)

\* A publisher whose buffer holds one item, where an Append evicts as well
\* as prune.
WakeInit ==
    /\ NewEventPublisher([EventBufferSize |-> 1, EventBufferTTL |-> 0])
    /\ NoSubscription
    /\ NoFilterCall

\* The scheduling of the tasks and of a subscriber as well: a Next call
\* that can go on does.
WakeSpec ==
    /\ WakeInit /\ [][Next]_vars
    /\ WF_vars(handleUpdates)
    /\ SF_vars(AppendItemStoreNext)
    /\ WF_vars(periodicPrune)
    /\ \A s \in Subs : WF_vars(NextCheck(s) \/ NextItem(s) \/ NextErr(s))

\* ---------------------------------------------------------- filter on its own
\* filter is called with a request and a slice, and once more with the same
\* request and its own result.
FilterInit ==
    /\ NewEventPublisher([EventBufferSize |-> 0, EventBufferTTL |-> 0])
    /\ NoSubscription
    /\ fPc = "call"
    /\ fReq \in FilterRequests
    /\ fEvents \in FilterEvents
    /\ fResult = << >>
    /\ fAgain = << >>

FilterCall ==
    /\ fPc = "call"
    /\ fResult' = filter(fReq, fEvents)
    /\ fPc' = "done"
    /\ UNCHANGED << cfg, ttl, now, ctxDone, fReq, fEvents, fAgain,
                    bufVars, taskVars, pubVars, subVars >>

FilterAgain ==
    /\ fPc = "done"
    /\ fAgain' = filter(fReq, fResult)
    /\ fPc' = "again"
    /\ UNCHANGED << cfg, ttl, now, ctxDone, fReq, fEvents, fResult,
                    bufVars, taskVars, pubVars, subVars >>

FilterNext == FilterCall \/ FilterAgain

FilterSpec == FilterInit /\ [][FilterNext]_vars

\* ================================================================== claims
\* A step in which the Next call of s returns.
Returns(s) == subPc[s] # "idle" /\ subPc'[s] = "idle"

\* Item n holds events that filter lets through to s.
Wanted(s, n) == Len(filter(req[s], items[n].Events)) > 0

\* C1: the batches that the successful Next calls of a subscription return
\* come from items in the order they were appended, each from an item after
\* the one returned before, and with commit indices that never decrease.
C1_OrderedDelivery ==
    [][\A s \in Subs :
          (Returns(s) /\ result'[s] = "events")
          => /\ lastRet'[s] > lastRet[s]
             /\ lastRet'[s] > subStart[s]
             /\ lastRet[s] # NoItem
                   => items[lastRet'[s]].Index >= items[lastRet[s]].Index]_vars

\* A subscription made on the empty buffer has returned the first appended
\* batch and then the second one.
C1_Witness ==
    \E s \in Subs :
        /\ subStart[s] = 1
        /\ subPc[s] = "idle"
        /\ result[s] = "events"
        /\ lastRet[s] = 3
        /\ Wanted(s, 2)

\* C2: Len() is never below 0 nor above maxSize + 1, also in the middle of
\* an Append; once an Append has done its eviction, and after it completed,
\* Len() is at most maxSize; and an Append that raised size above maxSize
\* leaves Len() equal to maxSize.
C2_LenBounds ==
    /\ eventBufferLen >= 0
    /\ eventBufferLen <= maxSize + 1
    /\ pc["writer"] \in {"select", "lock", "notify", "done"}
          => eventBufferLen <= maxSize
    /\ (pc["writer"] = "notify" /\ addedSize > maxSize)
          => eventBufferLen = maxSize

\* An Append on a full buffer has evicted the head and is about to return.
C2_Witness ==
    /\ pc["writer"] = "notify"
    /\ addedSize > maxSize
    /\ maxSize > 0
    /\ eventBufferLen = maxSize

\* C3: a Next call made while the cursor of the subscription is an item
\* older than the head returns 'event dropped from buffer' and no events,
\* unless its ctx is cancelled or the subscription is force-closed.
C3_SlowReader ==
    \A s \in Subs :
        (subPc[s] = "idle" /\ calledBehind[s]
            /\ result[s] \notin {"context canceled", "ErrSubscriptionClosed"})
        => /\ result[s] = "event dropped from buffer"
           /\ retEvents[s] = << >>

\* A Next call of a subscriber whose item was evicted has returned the
\* slow-reader error.
C3_Witness ==
    \E s \in Subs :
        /\ subPc[s] = "idle"
        /\ calledBehind[s]
        /\ result[s] = "event dropped from buffer"
        /\ currentItem[s] < eventBufferHead

\* An event matches an interest set when its topic is present and either
\* its key is a listed key or a listed key is "*".
Matches(r, e) ==
    /\ e.Topic \in DOMAIN r
    /\ \E i \in 1 .. Len(r[e.Topic]) :
          r[e.Topic][i] = e.Key \/ r[e.Topic][i] = AllKeys

\* The events of item n that match the interest set of s.
Matching(s, n) == SelectSeq(items[n].Events, LAMBDA e : Matches(req[s], e))

\* The item after which s looks for its next batch: the one it returned
\* last, or the one it was created on.
Base(s) == IF lastRet[s] = NoItem THEN subStart[s] ELSE lastRet[s]

\* C4: a subscription created on the empty buffer with maxSize >= 1, not
\* cancelled and not force-closed, returns from its first successful Next
\* exactly the matching events of the first publish that has some, and no
\* Next call before that returns an error, whatever the writer and the
\* pruner do meanwhile.
C4_EmptyBufferFirstPublish ==
    [][\A s \in Subs :
          (/\ Returns(s)
           /\ subStart[s] = 1
           /\ maxSize >= 1
           /\ lastRet[s] = NoItem
           /\ result'[s] \notin {"context canceled", "ErrSubscriptionClosed"})
          => /\ result'[s] = "events"
             /\ \A m \in 2 .. lastRet'[s] - 1 : ~Wanted(s, m)
             /\ retEvents'[s] = Matching(s, lastRet'[s])]_vars

\* C5: the state never goes from closed back to open; a Next call that
\* finds the state closed when it starts returns ErrSubscriptionClosed and
\* no events; and a Next call that comes back from bufferItem.Next with an
\* error while the state is closed returns ErrSubscriptionClosed.
C5_ForceCloseTerminal ==
    [][\A s \in Subs :
          /\ state[s] = subscriptionStateClosed
                => state'[s] = subscriptionStateClosed
          /\ (subPc[s] = "check" /\ state[s] = subscriptionStateClosed
                 /\ subPc'[s] # "check")
                => /\ subPc'[s] = "idle"
                   /\ result'[s] = "ErrSubscriptionClosed"
                   /\ retEvents'[s] = << >>
          /\ (Returns(s) /\ state[s] = subscriptionStateClosed
                 /\ result'[s] # "events")
                => result'[s] = "ErrSubscriptionClosed"]_vars

\* A force-closed subscription has returned ErrSubscriptionClosed although
\* a batch it wants stands ready after its cursor.
C5_Witness ==
    \E s \in Subs :
        /\ state[s] = subscriptionStateClosed
        /\ subPc[s] = "idle"
        /\ result[s] = "ErrSubscriptionClosed"
        /\ ch[currentItem[s]]
        /\ next[currentItem[s]] # NoItem
        /\ Wanted(s, next[currentItem[s]])

\* C6: a Next call that returns the cancellation error leaves the
\* subscription open, and the Next call after it, unless cancelled or
\* force-closed itself, returns the first matching batch published after
\* the batch the subscription returned last.
C6_CancelResumable ==
    [][\A s \in Subs :
          /\ (Returns(s) /\ result'[s] = "context canceled")
                => /\ state'[s] = subscriptionStateOpen
                   /\ currentItem'[s] = currentItem[s]
          /\ (Returns(s) /\ resumed[s]
                 /\ result'[s] \notin {"context canceled", "ErrSubscriptionClosed"})
                => /\ result'[s] = "events"
                   /\ \A m \in Base(s) + 1 .. lastRet'[s] - 1 : ~Wanted(s, m)
                   /\ retEvents'[s] = Matching(s, lastRet'[s])]_vars

\* C7: filter returns exactly the events of its input that match the
\* interest set, each once and in the order of the input, whatever the key
\* lists hold; so its input unchanged when every event matches.
C7_FilterExact ==
    fPc \in {"done", "again"}
        => fResult = SelectSeq(fEvents, LAMBDA e : Matches(fReq, e))

\* C8: filter is idempotent: filter(req, filter(req, es)) is the same
\* sequence of events as filter(req, es).
C8_FilterIdempotent == fPc = "again" => fAgain = fResult

\* C9: every Publish call with events returns in the end, whether or not a
\* subscriber ever calls Next and whether or not the ctx of the publisher is
\* cancelled before or while it waits at e.publishCh.
C9_PublishReturns == (pubPc = "send") ~> (pubPc = "idle")

\* C9 as amended: every Publish call with events returns in the end, with
\* no subscriber calling Next, as long as the ctx of the publisher is not
\* cancelled.
C9_PublishReturnsUnlessCancelled ==
    (pubPc = "send") ~> (pubPc = "idle" \/ ctxDone)

\* The second Publish call has handed its update to the writer and has
\* returned, with no subscription in existence and the ctx not cancelled.
C9_Witness ==
    /\ pubPc = "idle"
    /\ pc["writer"] = "lock"
    /\ update.index = 2
    /\ Len(update.events) > 0
    /\ ~ctxDone
    /\ \A s \in Subs : subPc[s] = "none"

\* C10: with a zero prune interval the pruner never calls prune: the head
\* advances and a droppedCh is closed only in an Append that raised size
\* above maxSize.
C10_ZeroIntervalNoPrune ==
    [][(/\ pruneTick = 0
        /\ \/ eventBufferHead' # eventBufferHead
           \/ \E i \in DOMAIN droppedCh : ~droppedCh[i] /\ droppedCh'[i])
       => /\ lock = "writer"
          /\ addedSize > maxSize]_vars

\* C11: prune advances the head only past an item whose age exceeds the TTL
\* that NewEventPublisher gave to newEventBuffer (1 hour for a configured
\* TTL of zero); an item whose age is at most that TTL stays.
C11_PruneRespectsTTL ==
    [][(lock = "pruner" /\ eventBufferHead' # eventBufferHead)
       => now - items[eventBufferHead].createdAt > ttl]_vars

\* C12: Publish without events is a no-op: it never stands at the hand-off
\* channel, the writer never gets or appends an update without events, and
\* the call and its return leave size, head, tail, the items and every ch
\* and droppedCh as they are.
C12_EmptyPublishNoOp ==
    [][/\ pubPc = "return" => pubPc' \in {"return", "idle"}
       /\ (pubPc # pubPc' /\ "return" \in {pubPc, pubPc'})
             => UNCHANGED << size, head, tail, items, next, ch, droppedCh,
                             pubMsg, update >>
       /\ pubPc' = "send" => Len(pubMsg'.events) > 0
       /\ Len(items') > Len(items)
             => Len(items'[Len(items')].Events) > 0]_vars

\* Publish was called without events on a buffer that holds an item, and is
\* about to return.
C12_Witness ==
    /\ pubPc = "return"
    /\ eventBufferLen > 0
    /\ pubMsg = NoUpdate
    /\ pc["writer"] = "select"

\* No Append is in progress.
WriterIdle == pc["writer"] \in {"select", "lock", "done"}

\* C13: with maxSize 1 and no pruning (no time has passed), every Append,
\* the first one too, has advanced the head by one item, so that the head
\* has moved as often as items were appended; and a Next call made with the
\* cursor not on the tail returns 'event dropped from buffer', unless it is
\* cancelled or the subscription force-closed.
C13_MaxSizeOne ==
    /\ [](maxSize = 1 /\ now = 0 /\ WriterIdle
            => eventBufferHead = Len(items))
    /\ [][\A s \in Subs :
             (Returns(s) /\ calledOffTail[s] /\ now' = 0
                /\ result'[s] \notin {"context canceled", "ErrSubscriptionClosed"})
             => result'[s] = "event dropped from buffer"]_vars

\* C13 as amended: with maxSize 1 and no pruning, every Append but the first
\* has advanced the head by one item, the first one leaves it on the
\* sentinel, so that the head is the item before the tail; and a Next call
\* made with the cursor older than the head returns 'event dropped from
\* buffer', unless it is cancelled or the subscription force-closed.
C13_MaxSizeOneHeadLags ==
    /\ [](maxSize = 1 /\ now = 0 /\ WriterIdle
            => /\ eventBufferHead = (IF Len(items) = 1 THEN 1 ELSE Len(items) - 1)
               /\ eventBufferTail = Len(items))
    /\ [][\A s \in Subs :
             (Returns(s) /\ calledBehind[s] /\ maxSize = 1
                /\ result'[s] \notin {"context canceled", "ErrSubscriptionClosed"})
             => result'[s] = "event dropped from buffer"]_vars

\* In a buffer of maxSize 1 the second Append has moved the head to the
\* first appended item, and a subscriber left on the sentinel got the
\* slow-reader error.
C13_Witness ==
    /\ maxSize = 1
    /\ now = 0
    /\ WriterIdle
    /\ Len(items) = 3
    /\ eventBufferHead = 2
    /\ \E s \in Subs :
          /\ subPc[s] = "idle"
          /\ calledBehind[s]
          /\ currentItem[s] = 1
          /\ result[s] = "event dropped from buffer"

C15_PublicationBarrier ==
    /\ \A i \in DOMAIN ch : ch[i] => next[i] # NoItem
    /\ \A s \in Subs : "invalid next item" \notin {err[s], result[s]}
    /\ pc["writer"] \in {"advClose", "advStore", "advDec"} => ~ch[oldTail]
    /\ (pc["writer"] = "notify" /\ addedSize > maxSize)
          => /\ ~ch[oldTail]
             /\ eventBufferHead > 1
             /\ droppedCh[eventBufferHead - 1]

\* A reader parked on the first appended item of a buffer of maxSize 1 was
\* woken by the Append that evicted the sentinel and got its batch, with
\* the head advanced.
C15_Witness ==
    \E s \in Subs :
        /\ maxSize = 1
        /\ now = 0
        /\ subStart[s] = 2
        /\ subPc[s] = "idle"
        /\ result[s] = "events"
        /\ lastRet[s] = 3
        /\ eventBufferHead = 2
        /\ droppedCh[1]

\* The number of items reachable from item i by next pointers, i included.
RECURSIVE Reachable(_)
Reachable(i) == IF next[i] = NoItem THEN 1 ELSE 1 + Reachable(next[i])

\* C16: whenever no Append and no prune is in progress, size is the number
\* of items reachable from the head by next pointers, the head included.
C16_SizeCountsReachable ==
    lock = "" => eventBufferLen = Reachable(eventBufferHead)

\* C16 as amended: whenever no Append and no prune is in progress, size is
\* the number of items reachable from the head by next pointers without the
\* head itself: the items after the head up to the tail.
C16_SizeCountsAfterHead ==
    lock = "" => /\ eventBufferLen = Reachable(eventBufferHead) - 1
                 /\ eventBufferLen = eventBufferTail - eventBufferHead

\* Two items were appended to a buffer of maxSize 1, the sentinel is
\* evicted, and the head and the tail are both reachable with size 1.
C16_Witness ==
    /\ lock = ""
    /\ maxSize = 1
    /\ eventBufferHead = 2
    /\ eventBufferTail = 3
    /\ eventBufferLen = 1

\* Where the writer stands inside buffer.Append, and the pruner inside
\* buffer.prune.
InAppend ==
    pc["writer"] \in {"storeTail", "addSize", "advClose", "advStore", "advDec",
                      "notify", "panic"}
InPrune == pc["pruner"] \in {"advClose", "advStore", "advDec", "panic"}

\* C17: Append and prune never run at the same moment: the writer is inside
\* Append exactly while it holds e.lock and the pruner inside prune only
\* while it holds it, and a step that changes head, tail or size is a step
\* of the one task that holds the lock.
C17_SingleWriter ==
    /\ [](/\ ~(InAppend /\ InPrune)
          /\ InAppend <=> lock = "writer"
          /\ InPrune <=> lock = "pruner")
    /\ [][<< head, tail, size >>' # << head, tail, size >>
            => /\ lock \in Tasks
               /\ pc'[lock] # pc[lock]
               /\ \A t \in Tasks \ {lock} : pc'[t] = pc[t]]_vars

\* The pruner is in the middle of prune, holding the lock, while the writer
\* has an update to append and waits for the lock.
C17_Witness ==
    /\ lock = "pruner"
    /\ pc["pruner"] = "advStore"
    /\ pc["writer"] = "lock"
    /\ Len(update.events) > 0

\* C18: no close of a closed channel and no store of a nil head is reached:
\* advanceHead starts only on a head that has a next item and an open
\* droppedCh, and appendItem closes only an open ch.  The ch of an item is
\* closed exactly when its next item is stored and the Append done, and the
\* droppedCh of an item exactly when the head has moved past it.
C18_OneShotSignals ==
    /\ \A t \in Tasks :
          /\ pc[t] # "panic"
          /\ pc[t] = "advClose"
                => /\ next[eventBufferHead] # NoItem
                   /\ ~droppedCh[eventBufferHead]
                   /\ eventBufferHead # eventBufferTail
          /\ pc[t] = "advStore" => nxt[t] # NoItem
    /\ pc["writer"] = "notify" => ~ch[oldTail]
    /\ \A i \in DOMAIN items :
          /\ ch[i] => next[i] # NoItem
          /\ lock # "writer" => (ch[i] <=> next[i] # NoItem)
          /\ droppedCh[i] => i <= eventBufferHead
          /\ lock = "" => (droppedCh[i] <=> i < eventBufferHead)

\* The sentinel and the first appended item were both notified and both
\* dropped, and the head is the second appended item.
C18_Witness ==
    /\ lock = ""
    /\ eventBufferHead = 3
    /\ ch[1] /\ ch[2]
    /\ droppedCh[1] /\ droppedCh[2]
    /\ ~droppedCh[3]

\* C19: a successful Next returns the batch of the item right after the
\* cursor, and only from a cursor whose droppedCh is open; the cursor moves
\* only to the next item and only past an item without a matching event or
\* one it has just returned.  So between two successful returns, and
\* between the creation of the subscription and its first one, every item
\* passed over holds no matching event, and a reader whose item was evicted
\* gets the error, not a later item.
C19_NoSilentLoss ==
    [][\A s \in Subs :
          /\ (subPc[s] # "link" /\ currentItem'[s] # currentItem[s])
                => /\ currentItem'[s] = next[currentItem[s]]
                   /\ ~droppedCh[currentItem[s]]
                   /\ \/ ~Wanted(s, currentItem'[s])
                      \/ /\ Returns(s)
                         /\ result'[s] = "events"
                         /\ lastRet'[s] = currentItem'[s]
          /\ (Returns(s) /\ result'[s] = "events")
                => /\ lastRet'[s] = currentItem'[s]
                   /\ currentItem[s] # currentItem'[s]
                   /\ \A m \in Base(s) + 1 .. lastRet'[s] - 1 :
                         \A i \in 1 .. Len(items[m].Events) :
                            ~Matches(req[s], items[m].Events[i])
                   /\ \E i \in 1 .. Len(items[lastRet'[s]].Events) :
                         Matches(req[s], items[lastRet'[s]].Events[i])]_vars

\* A subscription made on the empty buffer passed over a first batch with
\* no event it wants and returned the second one, which has one.
C19_Witness ==
    \E s \in Subs :
        /\ subStart[s] = 1
        /\ subPc[s] = "idle"
        /\ result[s] = "events"
        /\ lastRet[s] = 3
        /\ ~Wanted(s, 2)
        /\ Len(items[2].Events) > 0

\* The Next call of s is parked in the select of bufferItem.Next on the
\* current tail, with no case ready.
ParkedOnTail(s) ==
    /\ subPc[s] = "select"
    /\ currentItem[s] = eventBufferTail
    /\ NextReady(s, currentItem[s]) = {}

\* C20: a Next call parked on the tail returns in the end, with events or
\* with an error, once the writer has accepted a Publish with an event that
\* matches; and a Next call in its select returns in the end once its ctx
\* is cancelled or the subscription force-closed.
C20_WakeUp ==
    \A s \in Subs :
        (\/ /\ ParkedOnTail(s)
            /\ pc["writer"] = "lock"
            /\ Len(filter(req[s], update.events)) > 0
         \/ /\ subPc[s] = "select"
            /\ ctxCancelled[s] \/ forceClosed[s])
        ~> (subPc[s] = "idle")

\* A Next call is parked on the tail, and the writer has accepted a Publish
\* with an event it wants and is about to append it.
C20_Witness ==
    \E s \in Subs :
        /\ ParkedOnTail(s)
        /\ eventBufferTail = 2
        /\ eventBufferHead = 1
        /\ pc["writer"] = "lock"
        /\ Len(filter(req[s], update.events)) > 0
====
